---------------------------- MODULE Spec2Model ----------------------------
(***************************************************************************)
(* A model of neurokit2's signal_interpolate (signal/signal_interpolate.py)*)
(* and eda_sympathetic (eda/eda_sympathetic.py).                           *)
(*                                                                         *)
(* Both are synchronous pure functions.  A call is one step: the action    *)
(* draws the arguments from bounded sets and records the call's outcome    *)
(* (the value returned or the exception raised, and the internal stages    *)
(* that ran before).  Real numbers are exact rationals <<n, d>> with d > 0 *)
(* in lowest terms, so floating-point rounding is not modelled.            *)
(***************************************************************************)
EXTENDS Integers, Sequences, FiniteSets

VARIABLES pc, fn, args, outcome

vars == <<pc, fn, args, outcome>>

(***************************************************************************)
(* Bounds of the model.                                                    *)
(***************************************************************************)
\* longest x_values / y_values
MaxLen == 4
\* largest integer x_new
MaxCount == 5

(***************************************************************************)
(* Exact rational arithmetic.                                              *)
(***************************************************************************)
Abs(a) == IF a < 0 THEN -a ELSE a

RECURSIVE GCD(_, _)
GCD(a, b) == IF b = 0 THEN a ELSE GCD(b, a % b)

Norm(n, d) ==
    LET s == IF d < 0 THEN -1 ELSE 1
        g == GCD(Abs(n), Abs(d))
    IN  <<(s * n) \div g, (s * d) \div g>>

Rat(k) == <<k, 1>>
\* (common factors are cancelled before multiplying, to keep the integers small)
RAdd(a, b) ==
    LET g == GCD(a[2], b[2])
    IN  Norm(a[1] * (b[2] \div g) + b[1] * (a[2] \div g), (a[2] \div g) * b[2])
RNeg(a) == <<-a[1], a[2]>>
RSub(a, b) == RAdd(a, RNeg(b))
RMul(a, b) ==
    LET g1 == GCD(Abs(a[1]), b[2])
        g2 == GCD(Abs(b[1]), a[2])
    IN  IF a[1] = 0 \/ b[1] = 0 THEN <<0, 1>>
        ELSE Norm((a[1] \div g1) * (b[1] \div g2), (a[2] \div g2) * (b[2] \div g1))
RDiv(a, b) == RMul(a, IF b[1] < 0 THEN <<-b[2], -b[1]>> ELSE <<b[2], b[1]>>)
RLt(a, b) ==
    LET g == GCD(a[2], b[2])
    IN  a[1] * (b[2] \div g) < b[1] * (a[2] \div g)
RLe(a, b) ==
    LET g == GCD(a[2], b[2])
    IN  a[1] * (b[2] \div g) <= b[1] * (a[2] \div g)
RSign(a) == IF a[1] > 0 THEN 1 ELSE IF a[1] < 0 THEN -1 ELSE 0
RAbs(a) == <<Abs(a[1]), a[2]>>

\* Python's int() of a number: truncation towards zero.
Trunc(a) == IF a[1] >= 0 THEN a[1] \div a[2] ELSE -((-a[1]) \div a[2])

ToRat(s) == [i \in DOMAIN s |-> Rat(s[i])]

\* the sum and the product of a sequence of rationals
RECURSIVE SumSeq(_)
SumSeq(s) ==
    IF s = <<>> THEN Rat(0)
    ELSE IF Len(s) = 1 THEN s[1]
    ELSE LET h == Len(s) \div 2
         IN  RAdd(SumSeq(SubSeq(s, 1, h)), SumSeq(SubSeq(s, h + 1, Len(s))))

RECURSIVE ProdSeq(_)
ProdSeq(s) ==
    IF s = <<>> THEN Rat(1) ELSE RMul(s[1], ProdSeq(Tail(s)))


(***************************************************************************)
(* scipy.interpolate.interp1d, as signal_interpolate uses it: x strictly   *)
(* increasing, bounds_error=False, fill_value=(below, above).              *)
(***************************************************************************)
\* the kinds interp1d knows by name; 'zero', 'slinear', 'quadratic' and
\* 'cubic' are the interpolating splines of order 0, 1, 2 and 3
SupportedKinds ==
    {"linear", "nearest", "nearest-up", "zero", "slinear", "quadratic", "cubic",
     "previous", "next"}

\* interp1d.__init__: the least number of data points a kind accepts (one
\* for the holds and for 'linear', order + 1 for a spline)
MinPoints(kind) ==
    CASE kind = "slinear" -> 2
      [] kind = "quadratic" -> 3
      [] kind = "cubic" -> 4
      [] OTHER -> 1

\* index of the last data point at or before q (0 when there is none)
LastAtOrBefore(x, q) ==
    LET S == {i \in DOMAIN x : RLe(x[i], q)}
    IN  IF S = {} THEN 0 ELSE CHOOSE i \in S : \A j \in S : j <= i

\* index of the first data point at or after q (Len(x) + 1 when there is none)
FirstAtOrAfter(x, q) ==
    LET S == {i \in DOMAIN x : RLe(q, x[i])}
    IN  IF S = {} THEN Len(x) + 1 ELSE CHOOSE i \in S : \A j \in S : i <= j

\* make_interp_spline(x, y, k) for k = 2, 3 with its default knots.  The
\* spline is the one piecewise polynomial of degree k, with k - 1 continuous
\* derivatives, that breaks at the interior knots and takes the values y at
\* the positions x.  It is written here as
\*     L(q) + c * W(q) + sum over the knots t_j of d_j * max(q - t_j, 0)^k
\* with L the polynomial of degree k - 1 through the first k data points
\* and W(q) = (q - x_1) ... (q - x_k); the data points k + 1 .. n fix c and
\* the d_j.
SplineOrder(kind) == IF kind = "quadratic" THEN 2 ELSE 3

\* the interior knots: for k = 2 the midpoints of the data intervals but the
\* first and the last; for k = 3 the data positions but the first two and
\* the last two (not-a-knot)
SplineKnots(k, x) ==
    IF k = 2
    THEN [j \in 1..(Len(x) - 3) |-> RDiv(RAdd(x[j + 1], x[j + 2]), Rat(2))]
    ELSE [j \in 1..(Len(x) - 4) |-> x[j + 2]]

RPow(a, k) == ProdSeq([i \in 1..k |-> a])

\* max(q - t, 0)^k
TruncPow(q, t, k) == IF RLt(t, q) THEN RPow(RSub(q, t), k) ELSE Rat(0)

\* the polynomial through the first k data points, at q
LagrangeAt(k, x, y, q) ==
    SumSeq([i \in 1..k |->
              RMul(Rat(y[i]),
                   ProdSeq([j \in 1..(k - 1) |->
                              LET m == IF j < i THEN j ELSE j + 1
                              IN  RDiv(RSub(q, x[m]), RSub(x[i], x[m]))]))])

SplineW(k, x, q) == ProdSeq([i \in 1..k |-> RSub(q, x[i])])

\* d_1 .. d_j, each one a pair <<a, b>> standing for a + b * c: data point
\* k + j lies after the knots 1 .. j only, so it gives d_j from c and the
\* d before it
RECURSIVE SplineJumps(_, _, _, _)
SplineJumps(k, x, y, j) ==
    IF j = 0 THEN <<>>
    ELSE LET before == SplineJumps(k, x, y, j - 1)
             t == SplineKnots(k, x)
             p == x[k + j]
             own == TruncPow(p, t[j], k)
             a == RSub(RSub(Rat(y[k + j]), LagrangeAt(k, x, y, p)),
                       SumSeq([i \in 1..(j - 1) |->
                                 RMul(before[i][1], TruncPow(p, t[i], k))]))
             b == RSub(RNeg(SplineW(k, x, p)),
                       SumSeq([i \in 1..(j - 1) |->
                                 RMul(before[i][2], TruncPow(p, t[i], k))]))
         IN  Append(before, <<RDiv(a, own), RDiv(b, own)>>)

\* interp1d.__init__ for a spline kind: the knots t, c, and the d_j as numbers
SplineFit(k, x, y) ==
    LET n == Len(x)
        t == SplineKnots(k, x)
        d == SplineJumps(k, x, y, n - k - 1)
        p == x[n]
        lhs == RSub(RSub(Rat(y[n]), LagrangeAt(k, x, y, p)),
                    SumSeq([i \in DOMAIN d |-> RMul(d[i][1], TruncPow(p, t[i], k))]))
        rhs == RAdd(SplineW(k, x, p),
                    SumSeq([i \in DOMAIN d |-> RMul(d[i][2], TruncPow(p, t[i], k))]))
        c == RDiv(lhs, rhs)
    IN  [k |-> k, t |-> t, c |-> c,
         d |-> [i \in DOMAIN d |-> RAdd(d[i][1], RMul(d[i][2], c))]]

\* what interp1d.__init__ prepares for a kind: the spline of a spline kind
NoFit == [k |-> 0, t |-> <<>>, c |-> Rat(0), d |-> <<>>]
Interp1dFit(kind, x, y) ==
    IF kind \in {"quadratic", "cubic"} THEN SplineFit(SplineOrder(kind), x, y)
    ELSE NoFit

\* the spline's value at q
SplineAt(fit, x, y, q) ==
    RAdd(RAdd(LagrangeAt(fit.k, x, y, q), RMul(fit.c, SplineW(fit.k, x, q))),
         SumSeq([i \in DOMAIN fit.d |-> RMul(fit.d[i], TruncPow(q, fit.t[i], fit.k))]))

\* the kernel's value at a position q inside [x[1], x[Len(x)]]
KernelInside(kind, fit, x, y, q) ==
    LET lo == LastAtOrBefore(x, q)
        hi == FirstAtOrAfter(x, q)
    IN  CASE kind \in {"previous", "zero"} -> Rat(y[lo])
          [] kind = "next" -> Rat(y[hi])
          [] kind = "nearest" ->
               \* half-way between two data points: the one before
               IF lo = hi \/ RLe(RSub(q, x[lo]), RSub(x[hi], q))
               THEN Rat(y[lo]) ELSE Rat(y[hi])
          [] kind = "nearest-up" ->
               \* half-way between two data points: the one after
               IF lo = hi \/ RLt(RSub(q, x[lo]), RSub(x[hi], q))
               THEN Rat(y[lo]) ELSE Rat(y[hi])
          [] kind \in {"quadratic", "cubic"} -> SplineAt(fit, x, y, q)
          [] OTHER ->
               \* 'linear' and 'slinear'
               IF lo = hi THEN Rat(y[lo])
               ELSE RAdd(Rat(y[lo]),
                         RDiv(RMul(Rat(y[hi] - y[lo]), RSub(q, x[lo])),
                              RSub(x[hi], x[lo])))

\* interp1d.__call__ on one position: out-of-bounds positions take the fill
\* values, the others the kernel's value.
Interp1dAt(kind, fit, x, y, fill_below, fill_above, q) ==
    IF RLt(q, x[1]) THEN Rat(fill_below)
    ELSE IF RLt(x[Len(x)], q) THEN Rat(fill_above)
    ELSE KernelInside(kind, fit, x, y, q)

(***************************************************************************)
(* scipy.interpolate.PchipInterpolator(x, y, extrapolate=True).            *)
(***************************************************************************)
Hk(x, k) == RSub(x[k + 1], x[k])
Mk(x, y, k) == RDiv(Rat(y[k + 1] - y[k]), Hk(x, k))

\* PchipInterpolator._edge_case: one-sided three-point derivative estimate,
\* adjusted to preserve shape.
PchipEdge(h0, h1, m0, m1) ==
    LET d == RDiv(RSub(RMul(RAdd(RMul(Rat(2), h0), h1), m0), RMul(h0, m1)),
                  RAdd(h0, h1))
    IN  IF RSign(d) # RSign(m0) THEN Rat(0)
        ELSE IF RSign(m0) # RSign(m1) /\ RLt(RMul(Rat(3), RAbs(m0)), RAbs(d))
             THEN RMul(Rat(3), m0)
        ELSE d

\* PchipInterpolator._find_derivatives: the derivative at data point k
PchipDeriv(x, y, k) ==
    LET n == Len(x)
    IN  IF n = 2 THEN Mk(x, y, 1)
        ELSE IF k = 1 THEN PchipEdge(Hk(x, 1), Hk(x, 2), Mk(x, y, 1), Mk(x, y, 2))
        ELSE IF k = n
             THEN PchipEdge(Hk(x, n - 1), Hk(x, n - 2), Mk(x, y, n - 1), Mk(x, y, n - 2))
        ELSE LET m0 == Mk(x, y, k - 1)
                 m1 == Mk(x, y, k)
                 w1 == RAdd(RMul(Rat(2), Hk(x, k)), Hk(x, k - 1))
                 w2 == RAdd(Hk(x, k), RMul(Rat(2), Hk(x, k - 1)))
             IN  IF RSign(m0) # RSign(m1) \/ RSign(m0) = 0 \/ RSign(m1) = 0
                 THEN Rat(0)
                 ELSE RDiv(RAdd(w1, w2), RAdd(RDiv(w1, m0), RDiv(w2, m1)))

\* the cubic Hermite piece of interval k, evaluated at q (also outside the
\* interval: extrapolate=True continues the first and the last piece)
HermiteAt(x, y, k, q) ==
    LET h == Hk(x, k)
        t == RDiv(RSub(q, x[k]), h)
        t2 == RMul(t, t)
        t3 == RMul(t2, t)
        h00 == RAdd(RSub(RMul(Rat(2), t3), RMul(Rat(3), t2)), Rat(1))
        h10 == RAdd(RSub(t3, RMul(Rat(2), t2)), t)
        h01 == RSub(RMul(Rat(3), t2), RMul(Rat(2), t3))
        h11 == RSub(t3, t2)
    IN  RAdd(RAdd(RMul(h00, Rat(y[k])), RMul(RMul(h10, h), PchipDeriv(x, y, k))),
             RAdd(RMul(h01, Rat(y[k + 1])), RMul(RMul(h11, h), PchipDeriv(x, y, k + 1))))

PchipAt(x, y, q) ==
    LET n == Len(x)
        lo == LastAtOrBefore(x, q)
        k == IF lo = 0 THEN 1 ELSE IF lo >= n THEN n - 1 ELSE lo
    IN  HermiteAt(x, y, k, q)


(***************************************************************************)
(* Python sequence indexing, 0-based with negative indices counted from    *)
(* the end.  An index outside -n .. n-1 raises IndexError; a slice bound   *)
(* is clipped instead.                                                     *)
(***************************************************************************)
IndexInRange(k, n) == -n <= k /\ k < n
PyIndex(k, n) == IF k < 0 THEN k + n ELSE k
SliceBound(k, n) ==
    IF k < 0 THEN (IF k + n < 0 THEN 0 ELSE k + n) ELSE (IF k > n THEN n ELSE k)

\* s[:k] = v
AssignBefore(s, k, v) ==
    [i \in DOMAIN s |-> IF i - 1 < SliceBound(k, Len(s)) THEN v ELSE s[i]]

\* s[k:] = v
AssignFrom(s, k, v) ==
    [i \in DOMAIN s |-> IF i - 1 >= SliceBound(k, Len(s)) THEN v ELSE s[i]]

\* np.linspace(start, stop, num): num evenly spaced positions, both ends included
Linspace(start, stop, num) ==
    [i \in 1..num |->
        IF num = 1 THEN start
        ELSE RAdd(start, RDiv(RMul(Rat(i - 1), RSub(stop, start)), Rat(num - 1)))]

(***************************************************************************)
(* signal_interpolate                                                      *)
(***************************************************************************)
NoneArg == [kind |-> "none", n |-> 0, seq |-> <<>>]
IntArg(k) == [kind |-> "int", n |-> k, seq |-> <<>>]
SeqArg(s) == [kind |-> "seq", n |-> 0, seq |-> s]

Return(v, st) ==
    [status |-> "return", exception |-> "none", origin |-> "none",
     value |-> v, stages |-> st]
Raise(e, o, st) ==
    [status |-> "raise", exception |-> e, origin |-> o, value |-> <<>>, stages |-> st]

\* a sanity check that only refuses a y_values shorter than x_values
LengthMismatch_one_sided(x_values, y_values) == Len(x_values) > Len(y_values)

\* line 67: the sanity check
LengthMismatch(x_values, y_values) == Len(x_values) # Len(y_values)

\* a fast path that compares the positions of a sequence x_new with
\* x_values instead of their number
FastPath_equal_positions(x_values, x_new) ==
    IF x_new.kind = "int" THEN Len(x_values) = x_new.n
    ELSE x_new.seq = x_values

\* lines 72-77: the condition under which y_values is returned as it is
\* (x_new is an int or a sequence here)
FastPath(x_values, x_new) ==
    IF x_new.kind = "int" THEN Len(x_values) = x_new.n
    ELSE Len(x_values) = Len(x_new.seq)

\* lines 92-93: the positions at which the interpolator is evaluated
QueryPositions(x_values, x_new) ==
    IF x_new.kind = "int"
    THEN Linspace(x_values[1], x_values[Len(x_values)], x_new.n)
    ELSE x_new.seq

\* lines 84-90 and 95: interp1d built with fill_value=([y_values[0]],
\* [y_values[-1]]) and evaluated at the positions xq
EvalInterp1d(method, x_values, y_values, xq) ==
    LET fit == Interp1dFit(method, x_values, y_values)
    IN  [i \in DOMAIN xq |->
            Interp1dAt(method, fit, x_values, y_values,
                       y_values[1], y_values[Len(y_values)], xq[i])]

\* lines 80-82 and 95: PchipInterpolator evaluated at the positions xq
EvalPchip(x_values, y_values, xq) ==
    [i \in DOMAIN xq |-> PchipAt(x_values, y_values, xq[i])]

\* lines 101-102: the two slice assignments, in order; the second reads the
\* array the first has written
MonotoneCubicOverride(interpolated, x_values, st) ==
    LET n == Len(interpolated)
        a == Trunc(x_values[1])
        b == Trunc(x_values[Len(x_values)])
    IN  IF ~IndexInRange(a, n)
        THEN Raise("IndexError", "interpolated[int(x_values[0])]", st)
        ELSE LET first == AssignBefore(interpolated, a, interpolated[PyIndex(a, n) + 1])
             IN  IF ~IndexInRange(b, n)
                 THEN Raise("IndexError", "interpolated[int(x_values[-1])]", st)
                 ELSE Return(AssignFrom(first, b, first[PyIndex(b, n) + 1]),
                             Append(st, "override"))

signal_interpolate(x_values, y_values, x_new, method) ==
    IF LengthMismatch(x_values, y_values)
    THEN Raise("ValueError", "signal_interpolate", <<>>)
    ELSE IF x_new.kind = "none"
    THEN Raise("TypeError", "len(x_new)", <<>>)
    ELSE IF FastPath(x_values, x_new)
    THEN Return(ToRat(y_values), <<>>)
    ELSE IF method = "monotone_cubic"
    THEN IF Len(x_values) < 2
         THEN Raise("ValueError", "PchipInterpolator", <<>>)
         ELSE LET xq == QueryPositions(x_values, x_new)
              IN  MonotoneCubicOverride(EvalPchip(x_values, y_values, xq), x_values,
                      <<"PchipInterpolator">>
                        \o (IF x_new.kind = "int" THEN <<"linspace">> ELSE <<>>)
                        \o <<"call">>)
    ELSE IF Len(y_values) = 0
    THEN Raise("IndexError", "y_values[0]", <<>>)
    ELSE IF method \notin SupportedKinds
    THEN Raise("NotImplementedError", "interp1d", <<>>)
    ELSE IF Len(x_values) < MinPoints(method)
    THEN Raise("ValueError", "interp1d", <<>>)
    ELSE LET xq == QueryPositions(x_values, x_new)
         IN  Return(EvalInterp1d(method, x_values, y_values, xq),
                    <<"interp1d">>
                      \o (IF x_new.kind = "int" THEN <<"linspace">> ELSE <<>>)
                      \o <<"call">>)

(***************************************************************************)
(* The arguments the model calls signal_interpolate with: x_values is      *)
(* strictly increasing, as both interpolators expect; positions are        *)
(* rationals and y-values integers.                                        *)
(***************************************************************************)
XVals == {Rat(0), <<1, 2>>, Rat(1), Rat(2)}
YVals == {10, 11, 12}
QVals == {Rat(-1), Rat(0), Rat(1), Rat(2), Rat(3)}

\* the strictly increasing sequences over S, up to length n
RECURSIVE IncreasingSeqs(_, _)
IncreasingSeqs(S, n) ==
    IF n = 0 THEN {<<>>}
    ELSE LET shorter == IncreasingSeqs(S, n - 1)
         IN  shorter \cup
             {Append(s, v) : <<s, v>> \in
                 {p \in shorter \X S :
                    Len(p[1]) = n - 1 /\ (p[1] = <<>> \/ RLt(p[1][Len(p[1])], p[2]))}}

SeqsOfLen(S, n) == [1..n -> S]

XSeqs == IncreasingSeqs(XVals, MaxLen)
\* y_values of the length of x_values take every value; a y_values of
\* another length is a constant sequence
YSeqs(x_values) ==
    SeqsOfLen(YVals, Len(x_values))
      \cup {[i \in 1..m |-> 10] : m \in (0..MaxLen) \ {Len(x_values)}}
XNews ==
    {NoneArg} \cup {IntArg(k) : k \in 0..MaxCount}
      \cup {SeqArg(s) : s \in IncreasingSeqs(QVals, Cardinality(QVals))}
Methods == SupportedKinds \cup {"monotone_cubic", "cosine"}

NoCall == [x_values |-> <<>>]
NoOutcome == Return(<<>>, <<>>)

Init ==
    /\ pc = "idle"
    /\ fn = "none"
    /\ args = NoCall
    /\ outcome = NoOutcome

CallSignalInterpolate ==
    /\ pc = "idle"
    /\ \E x_values \in XSeqs, x_new \in XNews, method \in Methods :
         \E y_values \in YSeqs(x_values) :
           /\ args' = [x_values |-> x_values, y_values |-> y_values,
                       x_new |-> x_new, method |-> method]
           /\ outcome' = signal_interpolate(x_values, y_values, x_new, method)
    /\ fn' = "signal_interpolate"
    /\ pc' = "done"

\* the caller takes the outcome; the next call is independent of this one
Finish ==
    /\ pc = "done"
    /\ pc' = "idle"
    /\ fn' = "none"
    /\ args' = NoCall
    /\ outcome' = NoOutcome

NextInterp == CallSignalInterpolate \/ Finish

SpecInterp == Init /\ [][NextInterp]_vars


(***************************************************************************)
(* eda_sympathetic                                                         *)
(*                                                                         *)
(* A method identifier is a sequence of characters.  An EDA signal is      *)
(* known by its length and by the spectral profile of its content; the     *)
(* numerical primitives (decimation, filtering, Welch PSD) are not         *)
(* computed: a pipeline records each primitive it calls with the arguments *)
(* it passes, each one applied to the output of the one before.            *)
(***************************************************************************)
UpperCase == <<"A", "B", "C", "D", "E", "F", "G", "H", "I", "J", "K", "L", "M",
               "N", "O", "P", "Q", "R", "S", "T", "U", "V", "W", "X", "Y", "Z">>
LowerCase == <<"a", "b", "c", "d", "e", "f", "g", "h", "i", "j", "k", "l", "m",
               "n", "o", "p", "q", "r", "s", "t", "u", "v", "w", "x", "y", "z">>

\* str.lower(): every upper-case letter becomes its lower-case letter
lower(s) ==
    [i \in DOMAIN s |->
        IF \E k \in DOMAIN UpperCase : UpperCase[k] = s[i]
        THEN LowerCase[CHOOSE k \in DOMAIN UpperCase : UpperCase[k] = s[i]]
        ELSE s[i]]

str_ghiasi == <<"g", "h", "i", "a", "s", "i">>
str_posada == <<"p", "o", "s", "a", "d", "a">>
str_quintero == <<"q", "u", "i", "n", "t", "e", "r", "o">>
str_posada_quintero == str_posada \o <<"-">> \o str_quintero

\* lines 68 and 70: the identifiers each branch accepts
GhiasiNames == {str_ghiasi}
PosadaNames == {str_posada, str_posada_quintero, str_quintero}

\* Python's round(): to the nearest integer, a tie to the even one
Round(a) ==
    LET fl == IF a[1] >= 0 THEN a[1] \div a[2] ELSE -((-a[1] + a[2] - 1) \div a[2])
        twice == RSub(RMul(Rat(2), a), Rat(2 * fl))
    IN  IF RLt(twice, Rat(1)) THEN fl
        ELSE IF RLt(Rat(1), twice) THEN fl + 1
        ELSE IF fl % 2 = 0 THEN fl ELSE fl + 1

CeilDiv(a, b) == (a + b - 1) \div b

\* a frequency band given in mHz, as two rationals in Hz
Band(lo, hi) == <<Norm(lo, 1000), Norm(hi, 1000)>>

(***************************************************************************)
(* The Posada variant, lines 83-117.                                       *)
(***************************************************************************)
\* lines 86-87: the two decimation factors, and the filter order n
decimate_q1 == 10
decimate_q2 == 20
decimate_n == 8
\* lines 90 and 96: the rate the filter and the PSD are given
posada_sampling_rate == 2
\* line 97
posada_nperseg == 128

\* len() of scipy.signal.decimate's output: every q-th sample is kept
DecimatedLen(len, q) == CeilDiv(len, q)

\* scipy's zero-phase filtering (filtfilt / sosfiltfilt) extends the signal
\* at both ends by 3 * (degree + 1) samples, degree being the degree of the
\* IIR filter, and raises ValueError unless the signal is longer than that
PadLen(degree) == 3 * (degree + 1)

\* line 90: the order given to signal_filter (a high-pass: its degree)
posada_filter_order == 8

\* the result of a stage that raised, or that was not reached
NoValue == [kind |-> "none"]
\* Python's None
NoneValue == [kind |-> "None"]

\* floor(log2(n)), n >= 1
RECURSIVE Log2Floor(_)
Log2Floor(n) == IF n < 2 THEN 0 ELSE 1 + Log2Floor(n \div 2)

\* the least k with m * 2^k >= 25, m >= 1
RECURSIVE UpShift(_)
UpShift(m) == IF m >= 25 THEN 0 ELSE 1 + UpShift(2 * m)

\* 2^e modulo n
RECURSIVE Pow2Mod(_, _)
Pow2Mod(e, n) == IF e = 0 THEN 1 % n ELSE (2 * Pow2Mod(e - 1, n)) % n

\* The decimal tie m / 200 (m odd, m >= 1) as a double.  m / 200 is
\* (m / 25) / 8; with 25 * 2^j <= m < 25 * 2^(j+1) the 53-bit significand is
\* m * 2^(52-j) / 25 rounded to an integer, so the remainder of m * 2^(52-j)
\* modulo 25 tells which way the double lies: 0 stored exactly, 1 .. 12
\* stored below the tie, 13 .. 24 stored above.
TieRemainder(m) ==
    LET j == IF m >= 25 THEN Log2Floor(m \div 25) ELSE -UpShift(m)
    IN  ((m % 25) * Pow2Mod(52 - j, 25)) % 25

\* '%.2f' of the double nearest to r = n / d (0 <= r, 100 * n an integer of
\* the model), in hundredths: to the nearest hundredth; a decimal tie goes
\* the way the double lies (0.045 is stored just below 0.045 and formats as
\* 0.04, 0.025 just above and formats as 0.03), and to the even hundredth
\* when the tie is stored exactly (0.125 formats as 0.12).  Away from a tie
\* the double lies on the same side of the tie as r.
Format2f(r) ==
    LET fl == (100 * r[1]) \div r[2]
        rem == (100 * r[1]) % r[2]
        rho == TieRemainder(2 * fl + 1)
    IN  IF rem < r[2] - rem THEN fl
        ELSE IF rem > r[2] - rem THEN fl + 1
        ELSE IF rho = 0 THEN (IF fl % 2 = 0 THEN fl ELSE fl + 1)
        ELSE IF rho <= 12 THEN fl
        ELSE fl + 1

\* the name _signal_power_instant_get gives the power of a band: its two
\* bounds with two decimals, here in hundredths of a Hz
PowerKey(frequency_band) == <<Format2f(frequency_band[1]), Format2f(frequency_band[2])>>

\* lines 104 and 109: the name looked up, '0.04-0.25Hz'
posada_key == <<4, 25>>

PosadaStages(eda_signal, frequency_band) ==
    LET len_filtered == DecimatedLen(DecimatedLen(eda_signal.len, decimate_q1),
                                     decimate_q2)
    IN  << [op |-> "decimate", q |-> decimate_q1, n |-> decimate_n],
           [op |-> "decimate", q |-> decimate_q2, n |-> decimate_n],
           [op |-> "signal_filter", sampling_rate |-> posada_sampling_rate,
            lowcut |-> Norm(1, 100), method |-> "butterworth",
            order |-> posada_filter_order],
           [op |-> "_signal_psd_welch", sampling_rate |-> posada_sampling_rate,
            nperseg |-> posada_nperseg, window_type |-> "blackman",
            noverlap |-> len_filtered \div 2, norm |-> FALSE],
           [op |-> "_signal_power_instant_get", frequency_band |-> frequency_band],
           [op |-> "divide_by_max_power"],
           [op |-> "_signal_power_instant_get", frequency_band |-> frequency_band] >>

\* the number of stages of the Posada variant that are entered: all seven,
\* or the ones up to the first that raises.  Each decimation and the
\* high-pass filter raise on a signal not longer than the filter's padding;
\* the Welch PSD (scipy.signal.welch, which first cuts nperseg down to the
\* length of the signal) raises when noverlap is not below nperseg.
PosadaReached(eda_signal, frequency_band) ==
    LET st == PosadaStages(eda_signal, frequency_band)
        len_1 == DecimatedLen(eda_signal.len, decimate_q1)
        len_2 == DecimatedLen(len_1, decimate_q2)
        nperseg == IF st[4].nperseg > len_2 THEN len_2 ELSE st[4].nperseg
    IN  IF eda_signal.len <= PadLen(decimate_n) THEN 1
        ELSE IF len_1 <= PadLen(decimate_n) THEN 2
        ELSE IF len_2 <= PadLen(st[3].order) THEN 3
        ELSE IF st[4].noverlap >= nperseg THEN 4
        ELSE 7

\* lines 83-117.  On return, EDA_Symp is what .get('0.04-0.25Hz') finds after
\* the fifth stage and EDA_SympN what it finds after the seventh: the power
\* of the band when the band's name is that key, None otherwise.  A power
\* is a value of the signal and of the stages applied to it.
_eda_sympathetic_posada(eda_signal, frequency_band) ==
    LET st == PosadaStages(eda_signal, frequency_band)
        reached == PosadaReached(eda_signal, frequency_band)
        found == PowerKey(frequency_band) = posada_key
    IN  IF reached < Len(st)
        THEN [status |-> "raise", exception |-> "ValueError", variant |-> "posada",
              stages |-> SubSeq(st, 1, reached),
              EDA_Symp |-> NoValue, EDA_SympN |-> NoValue]
        ELSE [status |-> "return", exception |-> "none", variant |-> "posada",
              stages |-> st,
              EDA_Symp |-> IF found
                           THEN [kind |-> "power", key |-> "0.04-0.25Hz",
                                 signal |-> eda_signal, stages |-> SubSeq(st, 1, 5)]
                           ELSE NoneValue,
              EDA_SympN |-> IF found
                            THEN [kind |-> "power", key |-> "0.04-0.25Hz",
                                  signal |-> eda_signal, stages |-> st]
                            ELSE NoneValue]


(***************************************************************************)
(* The Ghiasi variant, lines 120-163.                                      *)
(***************************************************************************)
\* a floating-point result: a number, or nan / inf
Num(r) == [kind |-> "num", val |-> r]
NaN == [kind |-> "nan", val |-> Rat(0)]
Inf == [kind |-> "inf", val |-> Rat(0)]

\* float division as numpy does it: no exception, nan and inf instead
FDiv(a, b) ==
    IF a.kind = "nan" \/ b.kind = "nan" THEN NaN
    ELSE IF RSign(b.val) = 0
         THEN (IF RSign(a.val) = 0 THEN NaN ELSE Inf)
    ELSE Num(RDiv(a.val, b.val))

\* the largest value of s[lo .. hi], lo <= hi
RECURSIVE MaxIn(_, _, _)
MaxIn(s, lo, hi) ==
    IF lo = hi THEN s[lo]
    ELSE LET mid == (lo + hi) \div 2
             a == MaxIn(s, lo, mid)
             b == MaxIn(s, mid + 1, hi)
         IN  IF RLe(a, b) THEN b ELSE a

MaxSeq(s) == MaxIn(s, 1, Len(s))

\* the rows of a grid, one after the other
RECURSIVE Flatten(_)
Flatten(g) ==
    IF g = <<>> THEN <<>>
    ELSE IF Len(g) = 1 THEN g[1]
    ELSE LET h == Len(g) \div 2
         IN  Flatten(SubSeq(g, 1, h)) \o Flatten(SubSeq(g, h + 1, Len(g)))

\* np.mean: nan for an empty array
np_mean(g) ==
    LET flat == Flatten(g)
    IN  IF flat = <<>> THEN NaN ELSE Num(RDiv(SumSeq(flat), Rat(Len(flat))))

\* np.max of a non-empty array
np_max(g) == Num(MaxSeq(Flatten(g)))

\* g[a:b], Python's slice of the rows a .. b-1 (0-based, clipped)
SliceRows(g, a, b) ==
    LET lo == SliceBound(a, Len(g))
        hi == SliceBound(b, Len(g))
    IN  IF hi <= lo THEN <<>> ELSE SubSeq(g, lo + 1, hi)

\* line 127: the rate the signal is resampled to
desired_sampling_rate == 50

\* len() of signal_resample's output
ResampledLen(len, sampling_rate, desired) == Round(Norm(len * desired, sampling_rate))

\* line 131
GhiasiNperseg(min_frequency, sampling_rate) ==
    Trunc(RMul(RDiv(Rat(5), min_frequency), Rat(sampling_rate)))

\* line 132
GhiasiOverlap(sampling_rate) == Norm(59, 50)

\* the power density of a signal of a given spectral profile at frequency
\* row r and time column c (0-based): never negative
Profile(profile, r, c) ==
    CASE profile = "zero" -> 0
      [] profile = "flat" -> 1
      [] profile = "ramp" -> r + c
      [] OTHER -> IF r = 1 THEN 7 ELSE c + 1

\* scipy.signal.spectrogram(x, fs, window, nperseg, noverlap) on a signal of
\* sig_len samples: the frequency axis, the time axis, and the grid Sxx
spectrogram(sig_len, profile, fs, nperseg, noverlap) ==
    LET n == IF nperseg > sig_len THEN sig_len ELSE nperseg
        nov == Trunc(noverlap)
        step == n - nov
        nseg == (sig_len - nov) \div step
        rows == n \div 2 + 1
    IN  IF nov >= n
        THEN [status |-> "raise", frequency |-> <<>>, time |-> <<>>, bins |-> <<>>]
        ELSE [status |-> "return",
              frequency |-> [k \in 1..rows |-> Norm((k - 1) * fs, n)],
              time |-> [j \in 1..nseg |->
                           RDiv(RAdd(Norm(n, 2), Rat((j - 1) * step)), Rat(fs))],
              bins |-> [k \in 1..rows |->
                           [j \in 1..nseg |-> Rat(Profile(profile, k - 1, j - 1))]]]

\* line 128: signal_filter is given no order and uses its default; a
\* band-pass filter has twice the degree of its order
ghiasi_filter_order == 2

GhiasiStages(eda_signal, sampling_rate, frequency_band) ==
    << [op |-> "standardize"],
       [op |-> "signal_resample", sampling_rate |-> sampling_rate,
        desired_sampling_rate |-> desired_sampling_rate],
       [op |-> "signal_filter", sampling_rate |-> sampling_rate,
        lowcut |-> Norm(1, 100), highcut |-> Norm(1, 2), method |-> "butterworth",
        order |-> ghiasi_filter_order],
       [op |-> "spectrogram", fs |-> sampling_rate, window |-> "blackman",
        nperseg |-> GhiasiNperseg(frequency_band[1], sampling_rate),
        noverlap |-> GhiasiOverlap(sampling_rate)] >>

\* line 136
lower_bound(frequency, min_frequency) ==
    Len(frequency)
      - Cardinality({k \in DOMAIN frequency : RLt(min_frequency, frequency[k])})

\* line 137: len(f)
BandCount(frequency, min_frequency, max_frequency) ==
    Cardinality({k \in DOMAIN frequency :
                    RLt(min_frequency, frequency[k]) /\ RLt(frequency[k], max_frequency)})

\* line 138
BandSlice(sg, min_frequency, max_frequency) ==
    LET lb == lower_bound(sg.frequency, min_frequency)
    IN  SliceRows(sg.bins, lb, lb + BandCount(sg.frequency, min_frequency, max_frequency))

\* line 158
GhiasiSymp(sg, min_frequency, max_frequency) ==
    np_mean(BandSlice(sg, min_frequency, max_frequency))

\* a normalisation by the largest value of the time axis
GhiasiSympN_by_time(sg, eda_symp) == FDiv(eda_symp, np_max(<<sg.time>>))

\* line 159
GhiasiSympN(sg, eda_symp) == FDiv(eda_symp, np_max(sg.bins))

_eda_sympathetic_ghiasi(eda_signal, sampling_rate, frequency_band) ==
    LET min_frequency == frequency_band[1]
        max_frequency == frequency_band[2]
        st == GhiasiStages(eda_signal, sampling_rate, frequency_band)
        len_filtered == ResampledLen(eda_signal.len, sampling_rate,
                                     desired_sampling_rate)
        sg == spectrogram(len_filtered,
                          eda_signal.profile, st[4].fs, st[4].nperseg, st[4].noverlap)
        eda_symp == GhiasiSymp(sg, min_frequency, max_frequency)
    IN  IF len_filtered <= PadLen(2 * st[3].order)
        THEN [status |-> "raise", exception |-> "ValueError", variant |-> "ghiasi",
              stages |-> SubSeq(st, 1, 3), EDA_Symp |-> NoValue, EDA_SympN |-> NoValue]
        ELSE IF sg.status = "raise"
        THEN [status |-> "raise", exception |-> "ValueError", variant |-> "ghiasi",
              stages |-> st, EDA_Symp |-> NoValue, EDA_SympN |-> NoValue]
        ELSE [status |-> "return", exception |-> "none", variant |-> "ghiasi",
              stages |-> st,
              EDA_Symp |-> eda_symp,
              EDA_SympN |-> GhiasiSympN(sg, eda_symp)]

\* a dispatch that compares the identifier as it is given
eda_sympathetic_case_sensitive(eda_signal, sampling_rate, frequency_band, method) ==
    IF method \in GhiasiNames
    THEN _eda_sympathetic_ghiasi(eda_signal, sampling_rate, frequency_band)
    ELSE IF method \in PosadaNames
    THEN _eda_sympathetic_posada(eda_signal, frequency_band)
    ELSE [status |-> "raise", exception |-> "ValueError", variant |-> "none",
          stages |-> <<>>, EDA_Symp |-> NoValue, EDA_SympN |-> NoValue]

\* a dispatch whose Posada variant filters and analyses at the caller's rate
\* divided by the decimation factor
eda_sympathetic_rate_passed(eda_signal, sampling_rate, frequency_band, method) ==
    IF lower(method) \in GhiasiNames
    THEN _eda_sympathetic_ghiasi(eda_signal, sampling_rate, frequency_band)
    ELSE IF lower(method) \in PosadaNames
    THEN LET r == _eda_sympathetic_posada(eda_signal, frequency_band)
             rate == Norm(sampling_rate, decimate_q1 * decimate_q2)
             AtRate(st) ==
                 [i \in DOMAIN st |->
                    IF "sampling_rate" \in DOMAIN st[i]
                    THEN [st[i] EXCEPT !.sampling_rate = rate] ELSE st[i]]
             Power(v) ==
                 IF v.kind = "power" THEN [v EXCEPT !.stages = AtRate(v.stages)] ELSE v
         IN  [r EXCEPT !.stages = AtRate(r.stages),
                       !.EDA_Symp = Power(r.EDA_Symp),
                       !.EDA_SympN = Power(r.EDA_SympN)]
    ELSE [status |-> "raise", exception |-> "ValueError", variant |-> "none",
          stages |-> <<>>, EDA_Symp |-> NoValue, EDA_SympN |-> NoValue]

\* lines 66-76
eda_sympathetic(eda_signal, sampling_rate, frequency_band, method) ==
    IF lower(method) \in GhiasiNames
    THEN _eda_sympathetic_ghiasi(eda_signal, sampling_rate, frequency_band)
    ELSE IF lower(method) \in PosadaNames
    THEN _eda_sympathetic_posada(eda_signal, frequency_band)
    ELSE [status |-> "raise", exception |-> "ValueError", variant |-> "none",
          stages |-> <<>>, EDA_Symp |-> NoValue, EDA_SympN |-> NoValue]

(***************************************************************************)
(* The arguments the model calls eda_sympathetic with.                     *)
(***************************************************************************)
\* lengths at which the Posada variant stops in its first decimation, in its
\* second, in its filter, and at which it returns
SignalLens == {20, 40, 420, 6000}
Profiles == {"zero", "flat", "ramp", "peak"}
\* a length at which the Posada variant stops in its Welch PSD
LongLen == 52000
Signals ==
    [len : SignalLens, profile : Profiles] \cup {[len |-> LongLen, profile |-> "flat"]}
SamplingRates == {50, 100, 1000}
FrequencyBands ==
    {Band(45, 250), Band(30, 250), Band(240, 250), Band(45, 40000),
     Band(22000, 24900)}
MethodNames ==
    {str_ghiasi, str_posada, str_quintero, str_posada_quintero,
     <<"G", "h", "i", "a", "s", "i">>, <<"P", "O", "S", "A", "D", "A">>,
     <<"i", "n", "v", "a", "l", "i", "d">>, <<>>,
     <<"w", "e", "l", "c", "h">>, str_posada \o <<" ">>}

CallEdaSympathetic ==
    /\ pc = "idle"
    /\ \E eda_signal \in Signals, sampling_rate \in SamplingRates,
          frequency_band \in FrequencyBands, method \in MethodNames :
           /\ args' = [eda_signal |-> eda_signal, sampling_rate |-> sampling_rate,
                       frequency_band |-> frequency_band, method |-> method]
           /\ outcome' = eda_sympathetic(eda_signal, sampling_rate, frequency_band,
                                         method)
    /\ fn' = "eda_sympathetic"
    /\ pc' = "done"

NextEda == CallEdaSympathetic \/ Finish

SpecEda == Init /\ [][NextEda]_vars


(***************************************************************************)
(* Properties of signal_interpolate, stated for SpecInterp.                 *)
(***************************************************************************)
InterpDone == pc = "done" /\ fn = "signal_interpolate"

\* the state is the end of a call with the given arguments
InterpCall(x_values, y_values, x_new, method) ==
    /\ InterpDone
    /\ args.x_values = x_values
    /\ args.y_values = y_values
    /\ args.x_new = x_new
    /\ args.method = method

SameLengths == Len(args.x_values) = Len(args.y_values)

\* x_new is the integer len(x_values) or a sequence as long as x_values
FastPathArgs ==
    \/ args.x_new.kind = "int" /\ args.x_new.n = Len(args.x_values)
    \/ args.x_new.kind = "seq" /\ Len(args.x_new.seq) = Len(args.x_values)

\* C2: whenever len(x_values) = len(y_values) and x_new is the integer
\* len(x_values) or a sequence of that length, the call returns y_values
\* itself, with no interpolator built, whatever the method.
C2_FastPathReturnsY ==
    (InterpDone /\ SameLengths /\ FastPathArgs)
      => /\ outcome.status = "return"
         /\ outcome.value = ToRat(args.y_values)
         /\ outcome.stages = <<>>

\* C2's case: an unsupported kernel name and query positions that are not
\* the data positions, of the same length
C2_Witness ==
    /\ InterpCall(ToRat(<<0, 1, 2>>), <<10, 12, 11>>, SeqArg(ToRat(<<-1, 2, 3>>)),
                  "cosine")
    /\ outcome.status = "return"

\* C3: whenever len(x_values) # len(y_values) the call raises the ValueError
\* of the sanity check, for every x_new and method, before anything else
\* runs and without a value.
C3_LengthMismatchRaises ==
    (InterpDone /\ ~SameLengths)
      => /\ outcome.status = "raise"
         /\ outcome.exception = "ValueError"
         /\ outcome.origin = "signal_interpolate"
         /\ outcome.stages = <<>>
         /\ outcome.value = <<>>

\* C3's case: x_new would take the fast path, and y_values is longer
C3_Witness ==
    /\ InterpCall(ToRat(<<0, 1>>), <<10, 10, 10>>, IntArg(2), "linear")
    /\ outcome.status = "raise"

\* output sample i is the first (last) y-value when its query position is
\* below x_values[0] (above x_values[-1])
ClampedOutside(xq) ==
    LET x == args.x_values
        y == args.y_values
    IN  /\ Len(outcome.value) = Len(xq)
        /\ \A i \in DOMAIN xq :
             /\ RLt(xq[i], x[1]) => outcome.value[i] = Rat(y[1])
             /\ RLt(x[Len(x)], xq[i]) => outcome.value[i] = Rat(y[Len(y)])

\* C4: for every kernel other than monotone cubic, any x_values / y_values
\* of equal length and any explicit x_new sequence, each output sample
\* queried below x_values[0] equals y_values[0] and each one queried above
\* x_values[-1] equals y_values[-1].
C4_ConstantExtrapolation ==
    (/\ InterpDone
     /\ SameLengths
     /\ Len(args.x_values) >= 1
     /\ args.method \in SupportedKinds
     /\ args.x_new.kind = "seq")
      => (outcome.status = "return" => ClampedOutside(args.x_new.seq))

\* C5: with 'monotone_cubic', every output sample queried before
\* x_values[0] equals y_values[0], every one queried after x_values[-1]
\* equals y_values[-1], and the ones queried inside keep the interpolator's
\* value.  (x_new is a non-empty sequence of another length than x_values,
\* so that the interpolator is used.)
C5_MonotoneCubicClamps ==
    (/\ InterpDone
     /\ SameLengths
     /\ Len(args.x_values) >= 2
     /\ args.method = "monotone_cubic"
     /\ args.x_new.kind = "seq"
     /\ Len(args.x_new.seq) >= 1
     /\ Len(args.x_new.seq) # Len(args.x_values))
      => /\ outcome.status = "return"
         /\ ClampedOutside(args.x_new.seq)
         /\ \A i \in DOMAIN args.x_new.seq :
              LET q == args.x_new.seq[i]
              IN  (/\ RLe(args.x_values[1], q)
                   /\ RLe(q, args.x_values[Len(args.x_values)]))
                    => outcome.value[i] = PchipAt(args.x_values, args.y_values, q)

\* C6: when x_new is an integer N # len(x_values) (N >= 2), the call returns
\* N samples, the kernel's values at N evenly spaced positions from
\* x_values[0] to x_values[-1]; the first is y_values[0] and the last
\* y_values[-1]; for every supported kernel, 'monotone_cubic' included.
C6_IntegerCount ==
    (/\ InterpDone
     /\ SameLengths
     /\ Len(args.x_values) >= 2
     /\ args.method \in SupportedKinds \cup {"monotone_cubic"}
     /\ args.x_new.kind = "int"
     /\ args.x_new.n >= 2
     /\ args.x_new.n # Len(args.x_values))
      => LET x == args.x_values
             y == args.y_values
             N == args.x_new.n
             xq == Linspace(x[1], x[Len(x)], N)
             fit == Interp1dFit(args.method, x, y)
         IN  /\ outcome.status = "return"
             /\ Len(outcome.value) = N
             /\ outcome.value[1] = Rat(y[1])
             /\ outcome.value[N] = Rat(y[Len(y)])
             /\ \A i \in 1..N :
                  outcome.value[i] =
                    IF args.method = "monotone_cubic" THEN PchipAt(x, y, xq[i])
                    ELSE KernelInside(args.method, fit, x, y, xq[i])


(***************************************************************************)
(* Properties of eda_sympathetic, stated for SpecEda.                      *)
(***************************************************************************)
EdaDone == pc = "done" /\ fn = "eda_sympathetic"

str_invalid == <<"i", "n", "v", "a", "l", "i", "d">>

NoResult ==
    /\ outcome.status = "raise"
    /\ outcome.exception = "ValueError"
    /\ outcome.variant = "none"
    /\ outcome.stages = <<>>

\* C1 as stated: 'posada' runs the Posada variant, 'ghiasi' the Ghiasi
\* variant, and every other identifier fails with the ValueError, no stage
\* run and no record returned.
C1_OnlyTwoIdentifiers ==
    EdaDone
      => /\ args.method = str_posada => outcome.variant = "posada"
         /\ args.method = str_ghiasi => outcome.variant = "ghiasi"
         /\ args.method \notin {str_posada, str_ghiasi} => NoResult

\* C1, amended: the identifier is compared in lower case; 'ghiasi' runs the
\* Ghiasi variant; 'posada', 'posada-quintero' and 'quintero' run the Posada
\* variant; every other identifier fails with the ValueError, no stage run
\* and no record returned.
C1_Dispatch ==
    EdaDone
      => LET m == lower(args.method)
         IN  /\ m = str_ghiasi => outcome.variant = "ghiasi"
             /\ m \in {str_posada, str_posada_quintero, str_quintero}
                  => (outcome.variant = "posada" /\ Len(outcome.stages) >= 1)
             /\ m \notin {str_ghiasi, str_posada, str_posada_quintero, str_quintero}
                  => NoResult

\* C1's case: the identifier 'invalid'
C1_Witness == EdaDone /\ args.method = str_invalid /\ NoResult

\* C7: two Posada calls that differ only in sampling_rate have the same
\* outcome, the same record when they return; the signal is decimated by 10
\* and then by 20, and the filter and the PSD are run at 2 Hz.
C7_PosadaIgnoresSamplingRate ==
    (EdaDone /\ lower(args.method) \in {str_posada, str_posada_quintero, str_quintero})
      => /\ \A r \in SamplingRates :
              LET other == eda_sympathetic(args.eda_signal, r, args.frequency_band,
                                           args.method)
              IN  /\ other.status = outcome.status
                  /\ other.stages = outcome.stages
                  /\ other.EDA_Symp = outcome.EDA_Symp
                  /\ other.EDA_SympN = outcome.EDA_SympN
         /\ \A i \in DOMAIN outcome.stages :
              LET stage == outcome.stages[i]
              IN  /\ i = 1 => (stage.op = "decimate" /\ stage.q = 10)
                  /\ i = 2 => (stage.op = "decimate" /\ stage.q = 20)
                  /\ "sampling_rate" \in DOMAIN stage => stage.sampling_rate = 2
         /\ outcome.EDA_SympN.kind = "power"
              => \A i \in DOMAIN outcome.EDA_SympN.stages :
                   LET stage == outcome.EDA_SympN.stages[i]
                   IN  "sampling_rate" \in DOMAIN stage => stage.sampling_rate = 2

\* C7's case: a Posada call at a rate other than the default, on a signal
\* long enough for every stage, that returns the power of the band
C7_Witness ==
    /\ EdaDone
    /\ args.method = str_posada
    /\ args.sampling_rate = 100
    /\ outcome.status = "return"
    /\ outcome.variant = "posada"
    /\ outcome.EDA_Symp.kind = "power"
    /\ outcome.EDA_SympN.kind = "power"

GhiasiReturned == EdaDone /\ outcome.variant = "ghiasi" /\ outcome.status = "return"

\* C8: whenever the Ghiasi variant completes, EDA_Symp is finite and not
\* negative and EDA_SympN lies in [0, 1].
C8_GhiasiFinite ==
    GhiasiReturned
      => /\ outcome.EDA_Symp.kind = "num"
         /\ RLe(Rat(0), outcome.EDA_Symp.val)
         /\ outcome.EDA_SympN.kind = "num"
         /\ RLe(Rat(0), outcome.EDA_SympN.val)
         /\ RLe(outcome.EDA_SympN.val, Rat(1))

\* the Ghiasi variant has reached its spectrogram
GhiasiCalled == EdaDone /\ outcome.variant = "ghiasi" /\ Len(outcome.stages) = 4

\* C9: the spectrogram is given segment_length =
\* round((5 / min_frequency) * sampling_rate) and an overlap of
\* round(59 * sampling_rate / 50) samples, both derived from the
\* sampling_rate of the call.
C9_RoundedAndScaled ==
    GhiasiCalled
      => /\ outcome.stages[4].nperseg =
               Round(RMul(RDiv(Rat(5), args.frequency_band[1]), Rat(args.sampling_rate)))
         /\ outcome.stages[4].noverlap = Rat(Round(Norm(59 * args.sampling_rate, 50)))

\* the spectrogram of the call the state is the end of
CallSpectrogram ==
    spectrogram(ResampledLen(args.eda_signal.len, args.sampling_rate, 50),
                args.eda_signal.profile, args.sampling_rate,
                outcome.stages[4].nperseg, outcome.stages[4].noverlap)

\* the sum of the absolute values of the rows lo .. hi of g that are in rs
RECURSIVE SumRows(_, _, _, _)
SumRows(g, rs, lo, hi) ==
    IF lo > hi THEN Rat(0)
    ELSE IF lo = hi
         THEN (IF lo \in rs THEN SumSeq([j \in DOMAIN g[lo] |-> RAbs(g[lo][j])])
               ELSE Rat(0))
    ELSE LET mid == (lo + hi) \div 2
         IN  RAdd(SumRows(g, rs, lo, mid), SumRows(g, rs, mid + 1, hi))

\* the mean of the absolute values of the rows rs of g
MeanOfRows(g, rs) ==
    IF rs = {} \/ g[1] = <<>> THEN NaN
    ELSE Num(RDiv(SumRows(g, rs, 1, Len(g)), Rat(Cardinality(rs) * Len(g[1]))))

\* the rows lower_bound .. lower_bound + len(f) - 1 (0-based) of the grid
IndexSlicedRows(sg) ==
    LET lb == lower_bound(sg.frequency, args.frequency_band[1])
        n == BandCount(sg.frequency, args.frequency_band[1], args.frequency_band[2])
    IN  {k \in DOMAIN sg.bins : lb + 1 <= k /\ k <= lb + n}

\* v is the largest value of the sequence s
IsMaxOf(v, s) == (\E i \in DOMAIN s : s[i] = v) /\ (\A i \in DOMAIN s : RLe(s[i], v))

\* v is the largest value of the grid g
IsGridMax(v, g) ==
    /\ \E k \in DOMAIN g : \E j \in DOMAIN g[k] : g[k][j] = v
    /\ \A k \in DOMAIN g : \A j \in DOMAIN g[k] : RLe(g[k][j], v)

\* C10 as stated: EDA_Symp is the mean of the absolute values of the
\* index-sliced sub-grid, and EDA_SympN is that mean divided by the largest
\* value of the time axis.
C10_DividedByTimeAxisMax ==
    GhiasiReturned
      => LET sg == CallSpectrogram
         IN  /\ outcome.EDA_Symp = MeanOfRows(sg.bins, IndexSlicedRows(sg))
             /\ LET v == sg.time[Len(sg.time)]
                 IN  /\ IsMaxOf(v, sg.time)
                     /\ outcome.EDA_SympN = FDiv(outcome.EDA_Symp, Num(v))

\* C10, amended: EDA_Symp is the mean of the index-sliced sub-grid (whose
\* values are not negative), and EDA_SympN is that mean divided by the
\* largest value of the whole grid returned by the spectrogram, every
\* frequency row included.
C10_DividedByGridMax ==
    GhiasiReturned
      => LET sg == CallSpectrogram
         IN  /\ outcome.EDA_Symp = MeanOfRows(sg.bins, IndexSlicedRows(sg))
             /\ LET v == MaxSeq([k \in DOMAIN sg.bins |-> MaxSeq(sg.bins[k])])
                 IN  /\ IsGridMax(v, sg.bins)
                     /\ outcome.EDA_SympN = FDiv(outcome.EDA_Symp, Num(v))

\* C10's case: the band selects rows, and the largest value of the grid is
\* outside them and differs from the largest time
C10_Witness ==
    /\ GhiasiReturned
    /\ args.eda_signal = [len |-> 420, profile |-> "ramp"]
    /\ args.sampling_rate = 100
    /\ args.frequency_band = Band(22000, 24900)
    /\ outcome.EDA_Symp = Num(Rat(9))
    /\ outcome.EDA_SympN = Num(<<9, 19>>)


(***************************************************************************)
(* Both functions together.                                                *)
(***************************************************************************)
Next == CallSignalInterpolate \/ CallEdaSympathetic \/ Finish

Spec == Init /\ [][Next]_vars

=============================================================================
